---- MODULE Spec2Model ----
(***************************************************************************)
(* Model of cloudinit/config/cc_osconfig.py: handle() and update_config(). *)
(* One invocation of handle() is followed call by call: the membership     *)
(* test on cfg, subp.which, distro.install_packages, the load of           *)
(* /etc/osconfig/osconfig.json, the in-memory merge, and update_config's   *)
(* stop / write_json / start.  Every collaborator call either returns or   *)
(* raises; handle() has no try/except, so a raise ends the invocation.     *)
(***************************************************************************)
EXTENDS Integers, Sequences, FiniteSets, TLC

\* ---------------------------------------------------------------- bounds
\* integer option values range over 0..MaxInt
MaxInt == 1
\* the file found on disk holds at most MaxOldKeys keys
MaxOldKeys == 2

\* ---------------------------------------------------------------- values
\* A JSON / Python value: null (None), an integer or a string.
None == [t |-> "null", n |-> 0, s |-> ""]
IntVal(k) == [t |-> "int", n |-> k, s |-> ""]
StrVal(x) == [t |-> "str", n |-> 0, s |-> x]

\* Python truthiness, as used by "if osconfig_..._cfg:".
Truthy(v) ==
    CASE v.t = "null" -> FALSE
      [] v.t = "int"  -> v.n # 0
      [] v.t = "str"  -> v.s # ""

\* dict.get(k): the value, or None when the key is absent.
Get(d, k) == IF k \in DOMAIN d THEN d[k] ELSE None

\* d[k] = v on a dict.
Set(d, k, v) == [x \in (DOMAIN d) \cup {k} |-> IF x = k THEN v ELSE d[x]]

EmptyDict == [x \in {} |-> None]

\* ------------------------------------------------------------------ keys
OptionKeys == {"local_management", "git_management", "git_repository_url",
               "git_branch", "debug_command_logging", "debug_full_logging"}

StringOptions == {"git_repository_url", "git_branch"}

\* The six keys the specification names as managed.
ManagedKeys == {"LocalManagement", "GitManagement", "GitRepositoryUrl",
                "GitBranch", "CommandLogging", "FullLogging"}

\* Every git-related key the merge can write (line 107 spells its key
\* 'GitMananagement').
GitKeys == {"GitManagement", "GitMananagement", "GitRepositoryUrl", "GitBranch"}

\* Keys a state file may hold, in the order sort_keys=True emits them;
\* "Hostname" stands for a key unrelated to this module.
KeyOrder == <<"CommandLogging", "FullLogging", "GitBranch", "GitManagement",
              "GitMananagement", "GitRepositoryUrl", "Hostname",
              "LocalManagement">>

FileKeys == {KeyOrder[i] : i \in DOMAIN KeyOrder}

\* -------------------------------------------------------- (de)serialising
\* write_json: json.dumps(config, sort_keys=True): the members in key order.
Dumps(d) ==
    LET ks == SelectSeq(KeyOrder, LAMBDA k : k \in DOMAIN d)
    IN  [i \in 1..Len(ks) |-> [key |-> ks[i], val |-> d[ks[i]]]]

\* load_json: json.loads: a dict of the members, the last duplicate winning.
Loads(text) ==
    [k \in {text[i].key : i \in DOMAIN text} |->
        LET i == CHOOSE j \in DOMAIN text :
                    /\ text[j].key = k
                    /\ \A m \in DOMAIN text : m > j => text[m].key # k
        IN  text[i].val]

JsonFile(d) == [kind |-> "json", text |-> Dumps(d)]
MissingFile == [kind |-> "missing", text |-> <<>>]
InvalidFile == [kind |-> "invalid", text |-> <<>>]

\* ----------------------------------------------------------------- inputs
\* Values a state file holds before the invocation: never equal to a value
\* an option can carry, so an overwrite is always visible.
OldValue(k) == IF k \in {"GitRepositoryUrl", "GitBranch", "Hostname"}
               THEN StrVal("old") ELSE IntVal(MaxInt + 1)

OldDicts == {[k \in D |-> OldValue(k)] :
                D \in {X \in SUBSET FileKeys : Cardinality(X) <= MaxOldKeys}}

InitialFiles == {MissingFile, InvalidFile} \cup {JsonFile(d) : d \in OldDicts}

\* What the 'osconfig' section may carry for a key; None stands for the
\* key being left out (dict.get returns None for it).
OptionChoices(k) == {None} \cup
    (IF k \in StringOptions
     THEN {StrVal(IF k = "git_branch" THEN "main" ELSE "https://example.com/r")}
     ELSE {IntVal(i) : i \in 0..MaxInt})

AllChoices == UNION {OptionChoices(k) : k \in OptionKeys}

Sections == {[k \in {x \in OptionKeys : f[x] # None} |-> f[k]] :
                f \in {g \in [OptionKeys -> AllChoices] :
                          \A k \in OptionKeys : g[k] \in OptionChoices(k)}}

Configs == {EmptyDict} \cup {[x \in {"osconfig"} |-> sec] : sec \in Sections}

\* ------------------------------------------------------------------ state
VARIABLES
    pc,         \* position of handle(): idle, which, install, load, merge,
                \* stop, write, start, done, failed
    cfg,        \* the cfg argument of handle()
    installed,  \* whether the osconfig binary is on PATH
    file,       \* /etc/osconfig/osconfig.json
    svc,        \* the osconfig service: "running" or "stopped"
    mycfg,      \* handle()'s local dict
    existing,   \* the dict load_json returned, before the merge mutates it
    trace,      \* the collaborator calls made so far, with their outcome
    file0,      \* file, svc, installed as they were when handle() was called
    svc0,
    installed0

vars == <<pc, cfg, installed, file, svc, mycfg, existing, trace,
          file0, svc0, installed0>>

\* lines 81-93: the locals handle() reads from the section
osconfig_cfg == IF "osconfig" \in DOMAIN cfg THEN cfg["osconfig"] ELSE EmptyDict
osconfig_localManagement_cfg == Get(osconfig_cfg, "local_management")
osconfig_gitManagement_cfg == Get(osconfig_cfg, "git_management")
osconfig_gitRepositoryUrl_cfg == Get(osconfig_cfg, "git_repository_url")
osconfig_gitBranch_cfg == Get(osconfig_cfg, "git_branch")
osconfig_debugCommandLogging_cfg == Get(osconfig_cfg, "debug_command_logging")
osconfig_debugFullLogging_cfg == Get(osconfig_cfg, "debug_full_logging")

Init ==
    /\ pc = "idle"
    /\ cfg = EmptyDict
    /\ installed \in BOOLEAN
    /\ file \in InitialFiles
    /\ svc \in {"running", "stopped"}
    /\ mycfg = EmptyDict
    /\ existing = EmptyDict
    /\ trace = <<>>
    /\ file0 = file
    /\ svc0 = svc
    /\ installed0 = installed

\* ------------------------------------------------------------------ merge
\* lines 104-109 with `if` in place of `elif`
ManagementOverlayBoth(d, local, git, url, branch) ==
    LET d1 == IF Truthy(local) THEN Set(d, "LocalManagement", local) ELSE d
    IN  IF Truthy(git)
        THEN Set(Set(Set(d1, "GitMananagement", git),
                     "GitRepositoryUrl", url), "GitBranch", branch)
        ELSE d1

\* lines 104-109 testing `is not None` in place of truthiness
ManagementOverlayNotNone(d, local, git, url, branch) ==
    IF local # None THEN Set(d, "LocalManagement", local)
    ELSE IF git # None
    THEN Set(Set(Set(d, "GitMananagement", git),
                 "GitRepositoryUrl", url), "GitBranch", branch)
    ELSE d

\* lines 104-109: the mutually-exclusive management configurations
ManagementOverlay(d, local, git, url, branch) ==
    IF Truthy(local) THEN Set(d, "LocalManagement", local)
    ELSE IF Truthy(git)
    THEN Set(Set(Set(d, "GitMananagement", git),
                 "GitRepositoryUrl", url), "GitBranch", branch)
    ELSE d

\* lines 111-115 with the full-logging test reading the command-logging option
DebugOverlayCoupled(d, command, full) ==
    LET d1 == IF Truthy(command) THEN Set(d, "CommandLogging", command) ELSE d
    IN  IF Truthy(command) THEN Set(d1, "FullLogging", full) ELSE d1

\* lines 111-115: the two debug-logging overlays
DebugOverlay(d, command, full) ==
    LET d1 == IF Truthy(command) THEN Set(d, "CommandLogging", command) ELSE d
    IN  IF Truthy(full) THEN Set(d1, "FullLogging", full) ELSE d1

\* ---------------------------------------------------------------- actions
\* line 76 without the membership test: cfg.get("osconfig", {}) is used
EnterNoSectionTest ==
    /\ pc = "idle"
    /\ \E c \in Configs : cfg' = c
    /\ pc' = "which"
    /\ UNCHANGED <<installed, file, svc, mycfg, existing, trace,
                   file0, svc0, installed0>>

\* lines 75-93: handle() is called; without an 'osconfig' key it returns
Enter ==
    /\ pc = "idle"
    /\ \E c \in Configs :
          /\ cfg' = c
          /\ pc' = IF "osconfig" \notin DOMAIN c THEN "done" ELSE "which"
    /\ UNCHANGED <<installed, file, svc, mycfg, existing, trace,
                   file0, svc0, installed0>>

\* line 97 with the test inverted
WhichInverted ==
    /\ pc = "which"
    /\ trace' = Append(trace, "which")
    /\ pc' = IF installed THEN "install" ELSE "load"
    /\ UNCHANGED <<cfg, installed, file, svc, mycfg, existing,
                   file0, svc0, installed0>>

\* line 97: subp.which("osconfig")
Which ==
    /\ pc = "which"
    /\ trace' = Append(trace, "which")
    /\ pc' = IF ~installed THEN "install" ELSE "load"
    /\ UNCHANGED <<cfg, installed, file, svc, mycfg, existing,
                   file0, svc0, installed0>>

\* line 98 wrapped in a try/except that logs and goes on
InstallSwallow ==
    /\ pc = "install"
    /\ \/ /\ installed' = TRUE
          /\ trace' = Append(trace, "install_ok")
       \/ /\ trace' = Append(trace, "install_fail")
          /\ UNCHANGED installed
    /\ pc' = "load"
    /\ UNCHANGED <<cfg, file, svc, mycfg, existing, file0, svc0, installed0>>

\* line 98: cloud.distro.install_packages(["osconfig"]), which may raise
Install ==
    /\ pc = "install"
    /\ \/ /\ installed' = TRUE
          /\ trace' = Append(trace, "install_ok")
          /\ pc' = "load"
       \/ /\ trace' = Append(trace, "install_fail")
          /\ pc' = "failed"
          /\ UNCHANGED installed
    /\ UNCHANGED <<cfg, file, svc, mycfg, existing, file0, svc0, installed0>>

\* line 101: util.load_json(util.load_text_file(...)); raises when the file
\* is missing or is not JSON
Load ==
    /\ pc = "load"
    /\ IF file.kind = "json"
       THEN /\ mycfg' = Loads(file.text)
            /\ existing' = Loads(file.text)
            /\ trace' = Append(trace, "load_ok")
            /\ pc' = "merge"
       ELSE /\ trace' = Append(trace, "load_fail")
            /\ pc' = "failed"
            /\ UNCHANGED <<mycfg, existing>>
    /\ UNCHANGED <<cfg, installed, file, svc, file0, svc0, installed0>>

\* lines 103-117 calling write_json before the service is stopped
MergeThenWrite ==
    /\ pc = "merge"
    /\ mycfg' = DebugOverlay(
                   ManagementOverlay(mycfg, osconfig_localManagement_cfg,
                                     osconfig_gitManagement_cfg,
                                     osconfig_gitRepositoryUrl_cfg,
                                     osconfig_gitBranch_cfg),
                   osconfig_debugCommandLogging_cfg,
                   osconfig_debugFullLogging_cfg)
    /\ trace' = Append(trace, "merge")
    /\ pc' = "write"
    /\ UNCHANGED <<cfg, installed, file, svc, existing, file0, svc0, installed0>>

\* lines 103-117: the merge into mycfg, then the call of update_config
Merge ==
    /\ pc = "merge"
    /\ mycfg' = DebugOverlay(
                   ManagementOverlay(mycfg, osconfig_localManagement_cfg,
                                     osconfig_gitManagement_cfg,
                                     osconfig_gitRepositoryUrl_cfg,
                                     osconfig_gitBranch_cfg),
                   osconfig_debugCommandLogging_cfg,
                   osconfig_debugFullLogging_cfg)
    /\ trace' = Append(trace, "merge")
    /\ pc' = "stop"
    /\ UNCHANGED <<cfg, installed, file, svc, existing, file0, svc0, installed0>>

\* line 70: distro.manage_service("stop", "osconfig"), which may raise
Stop ==
    /\ pc = "stop"
    /\ \/ /\ svc' = "stopped"
          /\ trace' = Append(trace, "stop_ok")
          /\ pc' = "write"
       \/ /\ trace' = Append(trace, "stop_fail")
          /\ pc' = "failed"
          /\ UNCHANGED svc
    /\ UNCHANGED <<cfg, installed, file, mycfg, existing, file0, svc0, installed0>>

\* line 72: write_json(OSCONFIG_CONFIGURATION_FILEPATH, config); the write
\* is atomic, so a failure leaves the file as it was
WriteJson ==
    /\ pc = "write"
    /\ \/ /\ file' = JsonFile(mycfg)
          /\ trace' = Append(trace, "write_ok")
          /\ pc' = "start"
       \/ /\ trace' = Append(trace, "write_fail")
          /\ pc' = "failed"
          /\ UNCHANGED file
    /\ UNCHANGED <<cfg, installed, svc, mycfg, existing, file0, svc0, installed0>>

\* line 73 followed by a rollback of the file when start raises
StartRollback ==
    /\ pc = "start"
    /\ \/ /\ svc' = "running"
          /\ trace' = Append(trace, "start_ok")
          /\ pc' = "done"
          /\ UNCHANGED file
       \/ /\ trace' = Append(trace, "start_fail")
          /\ pc' = "failed"
          /\ file' = file0
          /\ UNCHANGED svc
    /\ UNCHANGED <<cfg, installed, mycfg, existing, file0, svc0, installed0>>

\* line 73: distro.manage_service("start", "osconfig"), which may raise
Start ==
    /\ pc = "start"
    /\ \/ /\ svc' = "running"
          /\ trace' = Append(trace, "start_ok")
          /\ pc' = "done"
       \/ /\ trace' = Append(trace, "start_fail")
          /\ pc' = "failed"
          /\ UNCHANGED svc
    /\ UNCHANGED <<cfg, installed, file, mycfg, existing, file0, svc0, installed0>>

Next ==
    \/ Enter
    \/ Which
    \/ Install
    \/ Load
    \/ Merge
    \/ Stop
    \/ WriteJson
    \/ Start

Spec == Init /\ [][Next]_vars

\* ------------------------------------------------------------- properties
Events == {trace[i] : i \in DOMAIN trace}
At(e) == {i \in DOMAIN trace : trace[i] = e}
Calls(es) == {i \in DOMAIN trace : trace[i] \in es}

\* write_json returned: the file holds what this invocation wrote
Wrote == "write_ok" \in Events
Written == Loads(file.text)

\* key k is in the written state exactly as it was in the loaded state
Kept(k) ==
    /\ k \in DOMAIN Written <=> k \in DOMAIN existing
    /\ k \in DOMAIN existing => Written[k] = existing[k]

GitSelected == Truthy(osconfig_gitManagement_cfg)
                  /\ ~Truthy(osconfig_localManagement_cfg)

\* C1: when git_management is truthy and local_management is not, the
\* written state holds GitManagement, GitRepositoryUrl and GitBranch, each
\* equal to its option (an absent url or branch as null).
C1_GitKeysFromOptions ==
    (Wrote /\ GitSelected) =>
        /\ {"GitManagement", "GitRepositoryUrl", "GitBranch"} \subseteq DOMAIN Written
        /\ Written["GitManagement"] = osconfig_gitManagement_cfg
        /\ Written["GitRepositoryUrl"] = osconfig_gitRepositoryUrl_cfg
        /\ Written["GitBranch"] = osconfig_gitBranch_cfg

\* C2: when local_management is truthy, whatever git_management is, the
\* written state has LocalManagement equal to the option and every git key
\* is in it exactly when it was in the loaded state, with the same value.
C2_LocalWins ==
    (Wrote /\ Truthy(osconfig_localManagement_cfg)) =>
        /\ "LocalManagement" \in DOMAIN Written
        /\ Written["LocalManagement"] = osconfig_localManagement_cfg
        /\ \A k \in GitKeys : Kept(k)

C2_Witness ==
    /\ Wrote
    /\ Truthy(osconfig_localManagement_cfg)
    /\ Truthy(osconfig_gitManagement_cfg)
    /\ "git_branch" \in DOMAIN osconfig_cfg
    /\ "GitBranch" \in DOMAIN existing
    /\ "GitManagement" \notin DOMAIN existing

\* C3: the merge only overlays: every key of the loaded state outside the
\* six managed keys is written with the same value, no key of the loaded
\* state is removed, and no key outside the loaded state's keys and the six
\* managed keys is written.
C3_OverlayOnly ==
    Wrote =>
        /\ \A k \in (DOMAIN existing) \ ManagedKeys :
              k \in DOMAIN Written /\ Written[k] = existing[k]
        /\ DOMAIN existing \subseteq DOMAIN Written
        /\ DOMAIN Written \subseteq (DOMAIN existing) \cup ManagedKeys

\* C4: with an 'osconfig' section in which local_management, git_management,
\* debug_command_logging and debug_full_logging are all absent or falsy, the
\* state written back equals the loaded state.
C4_IdentityMerge ==
    (/\ Wrote
     /\ ~Truthy(osconfig_localManagement_cfg)
     /\ ~Truthy(osconfig_gitManagement_cfg)
     /\ ~Truthy(osconfig_debugCommandLogging_cfg)
     /\ ~Truthy(osconfig_debugFullLogging_cfg)) => Written = existing

C4_Witness ==
    /\ Wrote
    /\ osconfig_localManagement_cfg = IntVal(0)
    /\ osconfig_gitManagement_cfg = IntVal(0)
    /\ ~Truthy(osconfig_debugCommandLogging_cfg)
    /\ ~Truthy(osconfig_debugFullLogging_cfg)
    /\ "git_repository_url" \in DOMAIN osconfig_cfg
    /\ {"LocalManagement", "GitBranch"} \subseteq DOMAIN existing

C6_NoSectionNoAction ==
    (pc # "idle" /\ "osconfig" \notin DOMAIN cfg) =>
        /\ pc = "done"
        /\ trace = <<>>
        /\ file = file0
        /\ svc = svc0
        /\ installed = installed0

C6_Witness ==
    /\ pc = "done"
    /\ "osconfig" \notin DOMAIN cfg
    /\ ~installed
    /\ file.kind = "json"
    /\ svc = "running"

\* C7: the calls go load, merge, stop, write, start: the file is written at
\* most once, only after stop returned and before any start; start is only
\* called after the write returned; stop is only called after the load and
\* the merge.
C7_StopWriteStartOrder ==
    /\ Cardinality(Calls({"write_ok", "write_fail"})) <= 1
    /\ \A w \in Calls({"write_ok", "write_fail"}) :
          /\ \E i \in At("stop_ok") : i < w
          /\ \A i \in Calls({"start_ok", "start_fail"}) : w < i
    /\ \A i \in Calls({"start_ok", "start_fail"}) :
          \E w \in At("write_ok") : w < i
    /\ \A i \in Calls({"stop_ok", "stop_fail"}) :
          \E l \in At("load_ok") : \E m \in At("merge") : l < m /\ m < i

C7_Witness ==
    /\ pc = "done"
    /\ trace = <<"which", "load_ok", "merge", "stop_ok", "write_ok", "start_ok">>

\* C8: when install_packages raises, the invocation fails there: no load,
\* stop, write or start follows, and the file and the service are as they
\* were before the invocation.
C8_InstallFailureStops ==
    "install_fail" \in Events =>
        /\ pc = "failed"
        /\ trace = <<"which", "install_fail">>
        /\ file = file0
        /\ svc = svc0

C8_Witness ==
    /\ "install_fail" \in Events
    /\ pc = "failed"
    /\ file.kind = "json"
    /\ svc = "running"
    /\ Truthy(osconfig_localManagement_cfg)

\* C9: with an 'osconfig' section, install_packages is called at most once,
\* exactly when the osconfig binary was not present, and before the load,
\* the stop and the write; with the binary present it is never called.
C9_InstallOnceIffMissing ==
    LET installs == Calls({"install_ok", "install_fail"})
    IN  /\ Cardinality(installs) <= 1
        /\ (At("which") # {} /\ pc # "install") => (installs # {} <=> ~installed0)
        /\ installs # {} => ~installed0
        /\ \A i \in Calls({"load_ok", "load_fail", "stop_ok", "stop_fail",
                           "write_ok", "write_fail"}) :
              /\ \A j \in installs : j < i
              /\ ~installed0 => installs # {}

C9_Witness ==
    /\ pc = "done"
    /\ trace = <<"which", "install_ok", "load_ok", "merge", "stop_ok",
                 "write_ok", "start_ok">>

\* C10: when start raises after stop and the write returned, the invocation
\* has failed with the merged configuration on disk and the service
\* stopped: the file is not rolled back and start is not called again.
C10_StartFailureKeepsWrite ==
    "start_fail" \in Events =>
        /\ pc = "failed"
        /\ file = JsonFile(mycfg)
        /\ svc = "stopped"
        /\ Cardinality(Calls({"start_ok", "start_fail"})) = 1
        /\ trace[Len(trace)] = "start_fail"
        /\ Cardinality(Calls({"write_ok", "write_fail"})) = 1

C10_Witness ==
    /\ "start_fail" \in Events
    /\ pc = "failed"
    /\ svc0 = "running"
    /\ file # file0
    /\ Written # existing

====
